---- MODULE Spec2Model ----
(***************************************************************************)
(* State-machine model of the booking scraper: the Express handlers of     *)
(* server.js, the scrapeHotelData pipeline of scraper.js, the request      *)
(* observer, and the pure text functions of extractors.js.                 *)
(*                                                                         *)
(* Spec is one POST /scrape request at a time through the whole pipeline;  *)
(* SpecServer is the server under concurrent clients; SpecData is          *)
(* extractHotelData with its eight field extractors and the room loop;     *)
(* SpecObserver is the request handler with the merge of the images;       *)
(* SpecExtract is single calls of the text functions.                      *)
(*                                                                         *)
(* Strings are sequences of tokens.  A token stands for a run of           *)
(* characters that the code's substring tests and replacements treat as a  *)
(* unit ("booking.com", "/hotel", "max300", a quotation mark, ...).        *)
(***************************************************************************)
EXTENDS Integers, Sequences, FiniteSets, TLC

VARIABLES
  pc,            \* position of the POST /scrape handler and of its scrape
  url,           \* req.body.url of the request being served (a JS value)
  pageUrl,       \* what page.url() returns now (set by the browser)
  status,        \* response.status() of the navigation, 0 before it
  currentUrl,    \* scrapeHotelData's local currentUrl
  finalUrl,      \* scrapeHotelData's local finalUrl
  tab,           \* index of the tab loadDynamicContent is working on
  diag,          \* diagnostics.steps of the scrape
  browser,       \* "null", "open" or "closed"
  calls,         \* how often each external operation was invoked (history)
  galleryImages, \* scrapeHotelData's galleryImages array
  reqCount,      \* requests intercepted during this scrape
  result,        \* completion value of scrapeHotelData's try/catch
  outcome,       \* how the scrapeHotelData promise settled
  rejection,     \* the error it rejected with
  response,      \* the HTTP response sent for the request
  call,          \* last call of a pure extractor function: name, input, output
  clock,         \* what Date.now() returns now
  scrapes,       \* per client: its POST /scrape request and the scrape it started
  health,        \* the last response of GET /health
  dpc,           \* position of extractHotelData
  page,          \* the page extractHotelData works on
  ex,            \* state of the promise of each of the eight field extractors
  hotelData,     \* extractHotelData's hotelData
  thrown,        \* the error extractHotelData threw
  trace,         \* the steps extractHotelData logged
  row,           \* extractRooms: index of the row of the current iteration
  rpc,           \* extractRooms: position within the loop
  results,       \* extractRooms: results
  panels,        \* rows whose detail panel is in the document, in document order
  pending,       \* rows whose detail panel has been requested and not rendered
  clicks,        \* the clicks extractRooms made (history)
  handled,       \* the intercepted requests and how the handler resolved them (history)
  returned,      \* hotelData.galleryImages once scrapeHotelData has merged the images
  timer,         \* autoScroll: the interval timer, "none", "set" or "cleared"
  totalHeight,   \* autoScroll: totalHeight
  heights        \* autoScroll: the values of scrollHeight read so far (history)

vars == <<pc, url, pageUrl, status, currentUrl, finalUrl, tab, diag, browser,
          calls, galleryImages, reqCount, result, outcome, rejection,
          response, call, clock, scrapes, health, dpc, page, ex,
          hotelData, thrown, trace, row, rpc, results, panels, pending, clicks,
          handled, returned, timer, totalHeight, heights>>

serverVars == <<pc, url, pageUrl, status, currentUrl, finalUrl, tab, diag,
                browser, calls, galleryImages, reqCount, result, outcome,
                rejection, response>>

\* The state of the server under concurrent clients.
concVars == <<clock, scrapes, health>>

\* The state of extractHotelData and of the room loop.
dataVars == <<dpc, page, ex, hotelData, thrown, trace>>
roomVars == <<row, rpc, results, panels, pending, clicks>>

\* The state of the request handler on its own.
obsVars == <<handled, returned>>

\* The state of autoScroll's scroll sweep.
sweepVars == <<timer, totalHeight, heights>>

auxVars == <<concVars, dataVars, roomVars, obsVars, sweepVars>>

(***************************************************************************)
(* Bounds of the model.                                                    *)
(***************************************************************************)
MaxRequests == 2    \* intercepted requests per scrape
MaxTextLen == 3     \* tokens of the text of a single review block
MaxReviews == 3     \* review blocks of a page
MaxNameLen == 3     \* tokens of the name of a single nearby place
MaxBlocks == 2      \* poi blocks of a page
MaxItems == 1       \* list items of a poi block
MaxFeatures == 3    \* facility spans of a page, badge spans of a room panel
MaxClients == 2     \* clients with a POST /scrape request open at a time
MaxClock == 2       \* readings of the millisecond clock after the first
MaxRows == 2        \* rows of the room table

(***************************************************************************)
(* String primitives (String.prototype.includes / replace with a string).  *)
(***************************************************************************)
MatchesAt(s, sub, i) ==
  /\ i >= 1
  /\ i + Len(sub) - 1 <= Len(s)
  /\ \A k \in 1..Len(sub) : s[i + k - 1] = sub[k]

Includes(s, sub) == \E i \in 1..(Len(s) + 1) : MatchesAt(s, sub, i)

IndexOf(s, sub) ==
  IF Includes(s, sub)
  THEN CHOOSE i \in 1..(Len(s) + 1) :
         /\ MatchesAt(s, sub, i)
         /\ \A j \in 1..(i - 1) : ~MatchesAt(s, sub, j)
  ELSE 0

\* s.replace(sub, by) with a string pattern: only the first occurrence.
ReplaceFirst(s, sub, by) ==
  LET i == IndexOf(s, sub)
  IN IF i = 0 THEN s
     ELSE SubSeq(s, 1, i - 1) \o by \o SubSeq(s, i + Len(sub), Len(s))

(***************************************************************************)
(* JS values of req.body.url: [t: type, s: string or printed value,        *)
(* a: array elements].                                                     *)
(***************************************************************************)
JsVal(t, s, a) == [t |-> t, s |-> s, a |-> a]
JsString(s) == JsVal("string", s, <<>>)
JsUndefined == JsVal("undefined", <<>>, <<>>)

Truthy(v) ==
  CASE v.t = "undefined" -> FALSE
    [] v.t = "null"      -> FALSE
    [] v.t = "string"    -> v.s # <<>>
    [] v.t = "number"    -> v.s # <<"0">>
    [] v.t = "boolean"   -> v.s = <<"true">>
    [] OTHER             -> TRUE

Marker == <<"booking.com", "/hotel">>
CaptchaMarker == <<"captcha">>

\* Evaluating url.includes(...) throws a TypeError when url is a truthy value
\* without an includes method.
isValidBookingUrlThrows(u) == Truthy(u) /\ u.t \notin {"string", "array"}

isValidBookingUrl(u) ==
  /\ Truthy(u)
  /\ IF u.t = "string" THEN Includes(u.s, Marker)
     ELSE \E i \in 1..Len(u.a) : u.a[i] = Marker

BodyUrls ==
  { JsUndefined,
    JsVal("null", <<"null">>, <<>>),
    JsVal("number", <<"0">>, <<>>),
    JsVal("number", <<"123">>, <<>>),
    JsVal("boolean", <<"false">>, <<>>),
    JsVal("boolean", <<"true">>, <<>>),
    JsVal("object", <<"{}">>, <<>>),
    JsVal("array", <<>>, << <<"example.com">> >>),
    JsString(<<>>),
    JsString(<<"example.com">>),
    JsString(<<"booking.com", "/x">>),
    JsString(<<"booking.com", "/x", "/hotel">>),
    JsString(<<"booking.com", "/hotel", "/x">>) }

PageUrls ==
  { <<"booking.com", "/hotel", "/x">>,
    <<"booking.com", "/hotel", "captcha">>,
    <<"booking.com", "captcha">>,
    <<"booking.com", "/x">> }

Statuses == {200, 403, 404, 500}

(***************************************************************************)
(* Errors, diagnostics, results, responses.                                *)
(***************************************************************************)
Err(msg, arg) == [msg |-> msg, arg |-> arg]
NoErr == Err("", <<>>)

AccessDeniedError == Err("Access denied (403) - Bot detection likely triggered", <<>>)
NotFoundError == Err("Page not found (404)", <<>>)
NoResponseError == Err("No response from server", <<>>)
WrongPageError(u) == Err("Final URL is not a hotel page: ", u)
OpError(op) == Err(op, <<"failed">>)

\* addStep(step, details): details reduced to the error message they carry.
addStep(d, step, e) == Append(d, [step |-> step, message |-> e])

NoData == [galleryImages |-> <<>>, extracted |-> FALSE]
NoResult == [success |-> FALSE, error |-> NoErr, data |-> NoData, made |-> FALSE]
NoResponse ==
  [code |-> 0, error |-> "", details |-> NoErr, example |-> FALSE,
   hasDiagnostics |-> FALSE, diagnostics |-> <<>>, data |-> NoData]

Ops == {"scrapeHotelData", "launch", "goto", "autoScroll", "tabClick",
        "fieldExtractors", "extractRooms", "close"}
NoCalls == [o \in Ops |-> 0]
Called(c, o) == [c EXCEPT ![o] = @ + 1]

NoCall == [fn |-> "none", arg |-> <<>>, pre |-> <<>>, ret |-> <<>>]


(***************************************************************************)
(* The request observer of scrapeHotelData (page.on("request")).           *)
(***************************************************************************)
GalleryPattern == <<"https://cf.bstatic.com/xdata/images/hotel/", "max300">>
LowResToken == <<"max300">>
HighResToken == <<"max1024x768">>

Req(type, u) == [resourceType |-> type, url |-> u]

Requests ==
  { Req("image", <<"https://cf.bstatic.com/xdata/images/hotel/", "max300", "/a.jpg">>),
    Req("image", <<"https://cf.bstatic.com/xdata/images/hotel/", "max300", "/a.jpg", "tracking">>),
    Req("image", <<"https://cf.bstatic.com/xdata/images/hotel/", "max300", "/a.jpg", "max300">>),
    Req("image", <<"https://proxy/", "max300", "https://cf.bstatic.com/xdata/images/hotel/", "max300", "/a.jpg">>),
    Req("image", <<"https://cf.bstatic.com/xdata/images/hotel/", "max1024x768", "/a.jpg">>),
    Req("script", <<"https://cf.bstatic.com/xdata/images/hotel/", "max300", "/a.js">>),
    Req("font", <<"/f.woff">>) }

\* The "Block unnecessary resources" test.
IsBlocked(req) ==
  \/ req.resourceType = "font"
  \/ Includes(req.url, <<"analytics">>)
  \/ Includes(req.url, <<"tracking">>)
  \/ Includes(req.url, <<"telemetry">>)

\* The "Collect gallery images" test.
IsGalleryImage(req) ==
  /\ req.resourceType = "image"
  /\ Includes(req.url, GalleryPattern)

\* requestUrl.replace("max300", "max1024x768")
NormalizeImageUrl(u) == ReplaceFirst(u, LowResToken, HighResToken)

\* A handler that records the image before the block test.
ObserveUnblocked(images, req) ==
  IF IsGalleryImage(req)
  THEN Append(images, NormalizeImageUrl(req.url))
  ELSE images

\* galleryImages after the handler has run for req.
Observe(images, req) ==
  IF ~IsBlocked(req) /\ IsGalleryImage(req)
  THEN Append(images, NormalizeImageUrl(req.url))
  ELSE images

\* A spread that keeps repeated elements.
KeepAll(xs) == xs

(***************************************************************************)
(* [...new Set(xs)]: the distinct elements in order of first appearance.   *)
(***************************************************************************)
RECURSIVE SetSpread(_)
SetSpread(xs) ==
  IF xs = <<>> THEN <<>>
  ELSE LET front == SetSpread(SubSeq(xs, 1, Len(xs) - 1))
           last == xs[Len(xs)]
       IN IF \E i \in 1..Len(front) : front[i] = last
          THEN front
          ELSE Append(front, last)

(***************************************************************************)
(* scrapeHotelData: catch and finally.                                     *)
(***************************************************************************)
\* The finally block, entered with diagnostics d and completion value res:
\* with a launched browser, log and call browser.close(); without one the
\* promise settles with res at once.
Finally(d, res, c) ==
  /\ result' = res
  /\ rejection' = NoErr
  /\ IF browser = "open"
     THEN /\ diag' = addStep(d, "Closing browser", NoErr)
          /\ calls' = Called(c, "close")
          /\ pc' = "close"
          /\ outcome' = "pending"
     ELSE /\ diag' = d
          /\ calls' = c
          /\ pc' = "settled"
          /\ outcome' = "fulfilled"

\* A catch that returns the failure value without the finally block.
CatchLeak(d, e) ==
  /\ result' = [success |-> FALSE, error |-> e, data |-> NoData, made |-> TRUE]
  /\ rejection' = NoErr
  /\ diag' = addStep(d, "Error", e)
  /\ calls' = calls
  /\ pc' = "settled"
  /\ outcome' = "fulfilled"

\* The catch block: log the error, return the failure value.
Catch(d, e) ==
  Finally(addStep(d, "Error", e),
          [success |-> FALSE, error |-> e, data |-> NoData, made |-> TRUE],
          calls)

(***************************************************************************)
(* Checks of scrapeHotelData after the navigation.                         *)
(***************************************************************************)
\* A status check that lets 403 through.
StatusErrorNo403(st) == IF st = 404 THEN NotFoundError ELSE NoErr

\* "Check HTTP status": the error thrown for this status, NoErr if none.
StatusError(st) ==
  IF st # 200
  THEN IF st = 403 THEN AccessDeniedError
       ELSE IF st = 404 THEN NotFoundError
       ELSE NoErr
  ELSE NoErr

\* "Check for captcha or redirect"
IsSoftBlocked(u) == Includes(u, CaptchaMarker) \/ ~Includes(u, Marker)

IsHotelPage(u) == Includes(u, Marker)

\* A final-URL check that tests the URL read before the grace delay.
VerifyStaleUrl(d, u) ==
  /\ finalUrl' = u
  /\ LET d1 == addStep(d, "Final URL", NoErr)
     IN IF ~IsHotelPage(currentUrl')
        THEN Catch(d1, WrongPageError(u))
        ELSE /\ diag' = addStep(d1, "Waiting for content to load", NoErr)
             /\ pc' = "waitBody"
             /\ UNCHANGED <<calls, result, outcome, rejection>>

\* "Verify final URL" onwards, entered with diagnostics d: read page.url()
\* (u), log it, throw on a wrong page, else wait for body.
VerifyFinalUrl(d, u) ==
  /\ finalUrl' = u
  /\ LET d1 == addStep(d, "Final URL", NoErr)
     IN IF ~IsHotelPage(u)
        THEN Catch(d1, WrongPageError(u))
        ELSE /\ diag' = addStep(d1, "Waiting for content to load", NoErr)
             /\ pc' = "waitBody"
             /\ UNCHANGED <<calls, result, outcome, rejection>>


(***************************************************************************)
(* Initial state: the server listens, no request has been served.          *)
(***************************************************************************)
Clients == 1..MaxClients

\* A client without a request; the response to its last request otherwise.
NoScrape == [pc |-> "idle", sessionId |-> <<>>, code |-> 0, diagnostics |-> FALSE]

\* No GET /health answered yet.
NoHealth == [code |-> 0, status |-> "", timestamp |-> <<>>,
             inProgress |-> 0, failed |-> 0]

Init ==
  /\ pc = "idle"
  /\ url = JsUndefined
  /\ pageUrl = <<>>
  /\ status = 0
  /\ currentUrl = <<>>
  /\ finalUrl = <<>>
  /\ tab = 0
  /\ diag = <<>>
  /\ browser = "null"
  /\ calls = NoCalls
  /\ galleryImages = <<>>
  /\ reqCount = 0
  /\ result = NoResult
  /\ outcome = "none"
  /\ rejection = NoErr
  /\ response = NoResponse
  /\ call = NoCall
  /\ clock = 0
  /\ scrapes = [c \in Clients |-> NoScrape]
  /\ health = NoHealth
  /\ dpc = "idle"
  /\ page = <<>>
  /\ ex = <<>>
  /\ hotelData = <<>>
  /\ thrown = NoErr
  /\ trace = <<>>
  /\ row = 0
  /\ rpc = "none"
  /\ results = <<>>
  /\ panels = <<>>
  /\ pending = {}
  /\ clicks = <<>>
  /\ handled = <<>>
  /\ returned = [done |-> FALSE, images |-> <<>>]
  /\ timer = "none"
  /\ totalHeight = 0
  /\ heights = <<>>

(***************************************************************************)
(* app.post("/scrape"): from the arrival of a request to the response, or  *)
(* to the first await of scrapeHotelData (puppeteer.launch).               *)
(***************************************************************************)
PostScrape(u) ==
  /\ pc \in {"idle", "responded"}
  /\ url' = u
  /\ pageUrl' = <<>>
  /\ status' = 0
  /\ currentUrl' = <<>>
  /\ finalUrl' = <<>>
  /\ tab' = 0
  /\ browser' = "null"
  /\ galleryImages' = <<>>
  /\ reqCount' = 0
  /\ result' = NoResult
  /\ rejection' = NoErr
  /\ UNCHANGED <<call, auxVars>>
  /\ IF isValidBookingUrlThrows(u)
     THEN \* TypeError, caught by the handler's catch
          /\ response' = [NoResponse EXCEPT
                            !.code = 500,
                            !.error = "An error occurred during scraping",
                            !.details = Err("url.includes is not a function", <<>>)]
          /\ pc' = "responded"
          /\ diag' = <<>>
          /\ calls' = NoCalls
          /\ outcome' = "none"
     ELSE IF ~isValidBookingUrl(u)
     THEN /\ response' = [NoResponse EXCEPT
                            !.code = 400,
                            !.error = "Invalid URL. Please provide a valid Booking.com hotel profile URL.",
                            !.example = TRUE]
          /\ pc' = "responded"
          /\ diag' = <<>>
          /\ calls' = NoCalls
          /\ outcome' = "none"
     ELSE \* scrapeHotelData(url) runs up to await puppeteer.launch(...)
          /\ response' = NoResponse
          /\ diag' = addStep(<<>>, "Initialization", NoErr)
          /\ calls' = Called(Called(NoCalls, "scrapeHotelData"), "launch")
          /\ outcome' = "pending"
          /\ pc' = "launch"

\* puppeteer.launch settles.
LaunchSettles(ok) ==
  /\ pc = "launch"
  /\ UNCHANGED <<url, pageUrl, status, currentUrl, finalUrl, tab,
                 galleryImages, reqCount, response, call, auxVars>>
  /\ IF ok
     THEN /\ browser' = "open"
          /\ diag' = addStep(diag, "Browser launched", NoErr)
          /\ pc' = "newPage"
          /\ UNCHANGED <<calls, result, outcome, rejection>>
     ELSE /\ browser' = browser
          /\ Catch(diag, OpError("puppeteer.launch"))

\* browser.newPage settles.
NewPageSettles(ok) ==
  /\ pc = "newPage"
  /\ UNCHANGED <<url, pageUrl, status, currentUrl, finalUrl, tab, browser,
                 galleryImages, reqCount, response, call, auxVars>>
  /\ IF ok
     THEN /\ pc' = "pageSetup"
          /\ UNCHANGED <<diag, calls, result, outcome, rejection>>
     ELSE Catch(diag, OpError("browser.newPage"))

\* setupAntiDetection, setViewport, setUserAgent, setExtraHTTPHeaders and
\* setRequestInterception settle; on success the handlers are installed
\* and page.goto is called.
PageSetupSettles(ok) ==
  /\ pc = "pageSetup"
  /\ UNCHANGED <<url, pageUrl, status, currentUrl, finalUrl, tab, browser,
                 galleryImages, reqCount, response, call, auxVars>>
  /\ IF ok
     THEN /\ diag' = addStep(diag, "Navigating to URL", NoErr)
          /\ calls' = Called(calls, "goto")
          /\ pc' = "goto"
          /\ UNCHANGED <<result, outcome, rejection>>
     ELSE Catch(diag, OpError("page setup"))

\* page.goto rejects (timeout, network error).
GotoRejects ==
  /\ pc = "goto"
  /\ UNCHANGED <<url, pageUrl, status, currentUrl, finalUrl, tab, browser,
                 galleryImages, reqCount, response, call, auxVars>>
  /\ Catch(diag, OpError("page.goto"))

\* page.goto resolves with no response object.
GotoNoResponse(u) ==
  /\ pc = "goto"
  /\ pageUrl' = u
  /\ UNCHANGED <<url, status, currentUrl, finalUrl, tab, browser,
                 galleryImages, reqCount, response, call, auxVars>>
  /\ Catch(diag, NoResponseError)

\* page.goto resolves with a response of status st, the page being at u;
\* the wait for the title selector starts.
GotoResponds(st, u) ==
  /\ pc = "goto"
  /\ status' = st
  /\ pageUrl' = u
  /\ diag' = addStep(diag, "Response received", NoErr)
  /\ pc' = "titleWait"
  /\ UNCHANGED <<url, currentUrl, finalUrl, tab, browser, calls,
                 galleryImages, reqCount, result, outcome, rejection,
                 response, call, auxVars>>

\* The wait for the title selector settles (a timeout is only logged), the
\* page being at u by then; then the status check, the captcha/redirect
\* check and, without a soft block, the final-URL check.
TitleWaitSettles(found, u) ==
  /\ pc = "titleWait"
  /\ pageUrl' = u
  /\ UNCHANGED <<url, status, tab, browser, galleryImages, reqCount,
                 response, call, auxVars>>
  /\ LET d1 == IF found THEN diag
               ELSE addStep(diag, "Warning: Could not find hotel title selector, continuing anyway", NoErr)
     IN IF StatusError(status) # NoErr
        THEN /\ Catch(d1, StatusError(status))
             /\ UNCHANGED <<currentUrl, finalUrl>>
        ELSE /\ currentUrl' = u
             /\ IF IsSoftBlocked(u)
                THEN /\ diag' = addStep(d1, "Redirect or captcha detected", NoErr)
                     /\ pc' = "graceDelay"
                     /\ UNCHANGED <<finalUrl, calls, result, outcome, rejection>>
                ELSE VerifyFinalUrl(d1, u)

\* delay(5000) is over, the page being at u by then.
GraceDelayDone(u) ==
  /\ pc = "graceDelay"
  /\ pageUrl' = u
  /\ UNCHANGED <<url, status, currentUrl, tab, browser, galleryImages,
                 reqCount, response, call, auxVars>>
  /\ IF Includes(currentUrl, CaptchaMarker)
     THEN /\ diag' = addStep(diag, "Captcha detected - waiting for resolution", NoErr)
          /\ pc' = "captchaWait"
          /\ UNCHANGED <<finalUrl, calls, result, outcome, rejection>>
     ELSE VerifyFinalUrl(diag, u)

\* A captcha wait whose timeout is thrown instead of caught.
CaptchaTimeoutThrows(navigated, u) ==
  /\ pc = "captchaWait"
  /\ pageUrl' = u
  /\ UNCHANGED <<url, status, currentUrl, tab, browser, galleryImages,
                 reqCount, response, call, auxVars>>
  /\ IF navigated
     THEN VerifyFinalUrl(addStep(diag, "Navigation after captcha", NoErr), u)
     ELSE /\ finalUrl' = finalUrl
          /\ Catch(addStep(diag, "Timeout waiting for captcha resolution", NoErr),
                   OpError("page.waitForNavigation"))

\* page.waitForNavigation settles: a navigation happened, or the timeout.
CaptchaWaitSettles(navigated, u) ==
  /\ pc = "captchaWait"
  /\ pageUrl' = u
  /\ UNCHANGED <<url, status, currentUrl, tab, browser, galleryImages,
                 reqCount, response, call, auxVars>>
  /\ VerifyFinalUrl(
       IF navigated
       THEN addStep(diag, "Navigation after captcha", NoErr)
       ELSE addStep(diag, "Timeout waiting for captcha resolution", NoErr),
       u)

\* page.waitForSelector("body") settles; on success autoScroll is called.
WaitBodySettles(ok) ==
  /\ pc = "waitBody"
  /\ UNCHANGED <<url, pageUrl, status, currentUrl, finalUrl, tab, browser,
                 galleryImages, reqCount, response, call, auxVars>>
  /\ IF ok
     THEN /\ diag' = addStep(diag, "Scrolling page", NoErr)
          /\ calls' = Called(calls, "autoScroll")
          /\ pc' = "scroll"
          /\ UNCHANGED <<result, outcome, rejection>>
     ELSE Catch(diag, OpError("waitForSelector body"))


Tabs == <<"Rooms", "Facilities", "Reviews">>

\* autoScroll settles; on success loadDynamicContent starts on the first tab.
ScrollSettles(ok) ==
  /\ pc = "scroll"
  /\ UNCHANGED <<url, pageUrl, status, currentUrl, finalUrl, browser,
                 galleryImages, reqCount, response, call, auxVars>>
  /\ IF ok
     THEN /\ tab' = 1
          /\ calls' = Called(calls, "tabClick")
          /\ pc' = "tabs"
          /\ UNCHANGED <<diag, result, outcome, rejection>>
     ELSE /\ tab' = tab
          /\ Catch(diag, OpError("autoScroll"))

\* One round of loadDynamicContent's loop settles: waitForSelector, click and
\* delay succeeded, or one of them threw and the failure is logged.  After
\* the last tab extractHotelData is called and starts the eight field
\* extractors.
TabSettles(ok) ==
  /\ pc = "tabs"
  /\ UNCHANGED <<url, pageUrl, status, currentUrl, finalUrl, browser,
                 galleryImages, reqCount, result, outcome, rejection,
                 response, call, auxVars>>
  /\ LET d1 == IF ok THEN diag
               ELSE addStep(diag, "Could not click tab", OpError(Tabs[tab]))
     IN IF tab < Len(Tabs)
        THEN /\ tab' = tab + 1
             /\ diag' = d1
             /\ calls' = Called(calls, "tabClick")
             /\ pc' = "tabs"
        ELSE /\ tab' = 0
             /\ diag' = addStep(addStep(d1, "Extracting data", NoErr),
                                "Extracting data in parallel", NoErr)
             /\ calls' = Called(calls, "fieldExtractors")
             /\ pc' = "parallel"

\* A catch in extractHotelData that logs and returns what it has.
ExtractionReturnsPartial(e) ==
  Finally(addStep(diag, "Error during extraction", e),
          [success |-> TRUE, error |-> NoErr, made |-> TRUE,
           data |-> [galleryImages |-> SetSpread(galleryImages),
                     extracted |-> FALSE]],
          calls)

\* extractHotelData's catch: log, re-throw into scrapeHotelData's catch.
ExtractionFails(e) ==
  Catch(addStep(diag, "Error during extraction", e), e)

\* Promise.all over the eight field extractors settles; on success
\* extractRooms is called.
ParallelSettles(ok) ==
  /\ pc = "parallel"
  /\ UNCHANGED <<url, pageUrl, status, currentUrl, finalUrl, tab, browser,
                 galleryImages, reqCount, response, call, auxVars>>
  /\ IF ok
     THEN /\ diag' = addStep(addStep(diag, "Parallel extraction complete", NoErr),
                             "Extracting rooms", NoErr)
          /\ calls' = Called(calls, "extractRooms")
          /\ pc' = "rooms"
          /\ UNCHANGED <<result, outcome, rejection>>
     ELSE ExtractionFails(OpError("field extractor"))

\* extractRooms settles; on success the observed gallery images are merged
\* into the record and the success value is returned.
RoomsSettles(ok) ==
  /\ pc = "rooms"
  /\ UNCHANGED <<url, pageUrl, status, currentUrl, finalUrl, tab, browser,
                 galleryImages, reqCount, response, call, auxVars>>
  /\ IF ok
     THEN Finally(addStep(addStep(diag, "Rooms extracted", NoErr),
                          "Extraction complete", NoErr),
                  [success |-> TRUE, error |-> NoErr, made |-> TRUE,
                   data |-> [galleryImages |-> SetSpread(galleryImages),
                             extracted |-> TRUE]],
                  calls)
     ELSE ExtractionFails(OpError("extractRooms"))

\* browser.close() settles: the promise of scrapeHotelData is fulfilled with
\* the completion value, or rejected with close's error.
CloseSettles(ok) ==
  /\ pc = "close"
  /\ pc' = "settled"
  /\ UNCHANGED <<url, pageUrl, status, currentUrl, finalUrl, tab, diag, calls,
                 galleryImages, reqCount, result, response, call, auxVars>>
  /\ IF ok
     THEN /\ browser' = "closed"
          /\ outcome' = "fulfilled"
          /\ rejection' = NoErr
     ELSE /\ browser' = "closeFailed"
          /\ outcome' = "rejected"
          /\ rejection' = OpError("browser.close")

\* The handler resumes after await scrapeHotelData(url) and responds.
Respond ==
  /\ pc = "settled"
  /\ pc' = "responded"
  /\ UNCHANGED <<url, pageUrl, status, currentUrl, finalUrl, tab, diag,
                 browser, calls, galleryImages, reqCount, result, outcome,
                 rejection, call, auxVars>>
  /\ response' =
       IF outcome = "rejected"
       THEN [NoResponse EXCEPT
               !.code = 500,
               !.error = "An error occurred during scraping",
               !.details = rejection]
       ELSE IF result.success
       THEN [NoResponse EXCEPT !.code = 200, !.data = result.data]
       ELSE [NoResponse EXCEPT
               !.code = 500,
               !.error = "Scraping failed",
               !.details = result.error,
               !.hasDiagnostics = TRUE,
               !.diagnostics = diag]

\* The page issues a request while the request handler is installed.
ObserverInstalled ==
  pc \in {"goto", "titleWait", "graceDelay", "captchaWait", "waitBody",
          "scroll", "tabs", "parallel", "rooms", "close"}

OnRequest(req) ==
  /\ ObserverInstalled
  /\ reqCount < MaxRequests
  /\ reqCount' = reqCount + 1
  /\ galleryImages' = Observe(galleryImages, req)
  /\ UNCHANGED <<pc, url, pageUrl, status, currentUrl, finalUrl, tab, diag,
                 browser, calls, result, outcome, rejection, response, call, auxVars>>

(***************************************************************************)
(* The text functions of extractors.js.  A text is a sequence of tokens:   *)
(* "sp" is a whitespace character, "ldquo"/"rdquo" the curly double quotes *)
(* U+201C/U+201D, "quot" the straight double quote, "laquo"/"raquo" the    *)
(* guillemets; any other token is a run of ordinary characters.            *)
(***************************************************************************)
Seqs(S, n) == UNION {[1..k -> S] : k \in 0..n}

RECURSIVE StripLeading(_, _)
StripLeading(s, set) ==
  IF s # <<>> /\ s[1] \in set THEN StripLeading(Tail(s), set) ELSE s

RECURSIVE StripTrailing(_, _)
StripTrailing(s, set) ==
  IF s # <<>> /\ s[Len(s)] \in set
  THEN StripTrailing(SubSeq(s, 1, Len(s) - 1), set)
  ELSE s

Whitespace == {"sp"}

\* String.prototype.trim
Trim(s) == StripTrailing(StripLeading(s, Whitespace), Whitespace)

\* The two character classes of extractReviews' regular expression
\* /^[\s“"«»""]+|[\s”"«»""]+$/g
LeadingStripped == {"sp", "ldquo", "quot", "laquo", "raquo"}
TrailingStripped == {"sp", "rdquo", "quot", "laquo", "raquo"}

\* textContent.trim().replace(/^[...]+|[...]+$/g, "") || ""
ReviewText(raw) ==
  StripTrailing(StripLeading(Trim(raw), LeadingStripped), TrailingStripped)

\* The record extractReviews maps a review block to.
ReviewOf(block) ==
  [name |-> block.name, country |-> block.country,
   text |-> ReviewText(block.text)]

\* Array.from(querySelectorAll(...)).map(...) of extractReviews
MapReviews(blocks) == [i \in 1..Len(blocks) |-> ReviewOf(blocks[i])]

\* reviews.filter with the seen set: keep a review unless an earlier one has
\* the same text.
RECURSIVE DedupByText(_)
DedupByText(reviews) ==
  IF reviews = <<>> THEN <<>>
  ELSE LET front == SubSeq(reviews, 1, Len(reviews) - 1)
           last == reviews[Len(reviews)]
       IN IF \E i \in 1..Len(front) : front[i].text = last.text
          THEN DedupByText(front)
          ELSE Append(DedupByText(front), last)

extractReviews(blocks) == DedupByText(MapReviews(blocks))

\* extractFeatures, and the amenities of a room panel: trimmed texts through
\* a Set.
TrimAll(texts) == [i \in 1..Len(texts) |-> Trim(texts[i])]

TrimmedSet(texts) == SetSpread(TrimAll(texts))

extractFeatures(spans) == TrimmedSet(spans)

roomAmenities(spans) == TrimmedSet(spans)

\* The /i flag of extractNearbyPlaces' regular expression.
LowerCase(tok) ==
  CASE tok \in {"Restaurant", "restaurant", "RESTAURANT"} -> "restaurant"
    [] tok \in {"Train", "train", "TRAIN"} -> "train"
    [] tok \in {"Airport", "airport", "AIRPORT"} -> "airport"
    [] tok \in {"Restaurants", "restaurants"} -> "restaurants"
    [] tok \in {"Transport", "transport"} -> "transport"
    [] OTHER -> tok

\* String.prototype.toLowerCase
toLowerCase(s) == [i \in 1..Len(s) |-> LowerCase(s[i])]

CategoryWords == {"restaurant", "train", "airport"}

\* place.replace(/^(Restaurant|Train|Airport)\s*/i, "")
StripCategoryPrefix(place) ==
  IF place # <<>> /\ LowerCase(place[1]) \in CategoryWords
  THEN StripLeading(Tail(place), Whitespace)
  ELSE place

\* The record extractNearbyPlaces maps a list item of a block to.
PlaceOf(item, heading) ==
  [place |-> StripCategoryPrefix(Trim(item.name)),
   distance |-> Trim(item.distance),
   type |-> toLowerCase(Trim(heading))]

\* flatMap over the poi blocks.
RECURSIVE FlatMapBlocks(_)
FlatMapBlocks(blocks) ==
  IF blocks = <<>> THEN <<>>
  ELSE LET b == blocks[1]
       IN [i \in 1..Len(b.items) |-> PlaceOf(b.items[i], b.heading)]
          \o FlatMapBlocks(Tail(blocks))

\* `${item.place}|${item.distance}`
PlaceKey(item) == item.place \o <<"|">> \o item.distance

RECURSIVE DedupByKey(_)
DedupByKey(places) ==
  IF places = <<>> THEN <<>>
  ELSE LET front == SubSeq(places, 1, Len(places) - 1)
           last == places[Len(places)]
       IN IF \E i \in 1..Len(front) : PlaceKey(front[i]) = PlaceKey(last)
          THEN DedupByKey(front)
          ELSE Append(DedupByKey(front), last)

extractNearbyPlaces(blocks) == DedupByKey(FlatMapBlocks(blocks))

\* galleryImages after the request handler has seen reqs in order.
RECURSIVE ObserveAll(_)
ObserveAll(reqs) ==
  IF reqs = <<>> THEN <<>>
  ELSE Observe(ObserveAll(SubSeq(reqs, 1, Len(reqs) - 1)), reqs[Len(reqs)])

Next ==
  \/ \E u \in BodyUrls : PostScrape(u)
  \/ \E ok \in BOOLEAN : LaunchSettles(ok)
  \/ \E ok \in BOOLEAN : NewPageSettles(ok)
  \/ \E ok \in BOOLEAN : PageSetupSettles(ok)
  \/ GotoRejects
  \/ \E u \in PageUrls : GotoNoResponse(u)
  \/ \E st \in Statuses, u \in PageUrls : GotoResponds(st, u)
  \/ \E found \in BOOLEAN, u \in PageUrls : TitleWaitSettles(found, u)
  \/ \E u \in PageUrls : GraceDelayDone(u)
  \/ \E navigated \in BOOLEAN, u \in PageUrls : CaptchaWaitSettles(navigated, u)
  \/ \E ok \in BOOLEAN : WaitBodySettles(ok)
  \/ \E ok \in BOOLEAN : ScrollSettles(ok)
  \/ \E ok \in BOOLEAN : TabSettles(ok)
  \/ \E ok \in BOOLEAN : ParallelSettles(ok)
  \/ \E ok \in BOOLEAN : RoomsSettles(ok)
  \/ \E ok \in BOOLEAN : CloseSettles(ok)
  \/ Respond
  \/ \E req \in Requests : OnRequest(req)

Spec == Init /\ [][Next]_vars


(***************************************************************************)
(* Calls of the text functions on the content of a page.                   *)
(***************************************************************************)
ReviewChars == {"a", "sp", "ldquo", "rdquo", "quot", "laquo", "raquo"}

ReviewBlock(name, text) == [name |-> name, country |-> "FR", text |-> text]

\* Pages with one review block of any text, and pages with several blocks
\* whose texts repeat (literally, or after the quotes are stripped).
ReviewPages ==
  { <<ReviewBlock("Ann", t)>> : t \in Seqs(ReviewChars, MaxTextLen) }
  \cup Seqs({ ReviewBlock(n, t) : n \in {"Ann", "Bob"},
                                  t \in {<<"a">>, <<"quot", "a", "quot">>, <<"b">>} },
            MaxReviews)

NameTokens == {"Restaurant", "restaurant", "Train", "TRAIN", "Airport",
               "airport", "sp", "x", "|"}

PoiItem(name, distance) == [name |-> name, distance |-> distance]
PoiBlock(heading, items) == [heading |-> heading, items |-> items]

\* Pages with one place of any name, pages with several blocks whose
\* places repeat, and pages whose names and distances contain "|".
NearbyPages ==
  { <<PoiBlock(<<"Restaurants">>, <<PoiItem(n, <<"1 km">>)>>)>> :
      n \in Seqs(NameTokens, MaxNameLen) }
  \cup Seqs({ PoiBlock(h, items) :
                h \in {<<"Restaurants">>, <<"Transport">>},
                items \in Seqs({ PoiItem(n, d) :
                                   n \in {<<"x">>, <<"Train", "sp", "x">>},
                                   d \in {<<"1 km">>, <<"2 km">>} },
                               MaxItems) },
            MaxBlocks)
  \cup Seqs({ PoiBlock(<<"Restaurants">>, <<PoiItem(n, d)>>) :
                n \in {<<"x">>, <<"x", "|", "y">>},
                d \in {<<"z">>, <<"y", "|", "z">>} },
            MaxBlocks)

SpanTexts == {<<"Pool">>, <<"sp", "Pool">>, <<"WiFi">>}

CallExtractReviews ==
  /\ call.fn = "none"
  /\ \E blocks \in ReviewPages :
       call' = [fn |-> "extractReviews", arg |-> blocks,
                pre |-> MapReviews(blocks),
                ret |-> extractReviews(blocks)]
  /\ UNCHANGED <<serverVars, auxVars>>

CallExtractNearbyPlaces ==
  /\ call.fn = "none"
  /\ \E blocks \in NearbyPages :
       call' = [fn |-> "extractNearbyPlaces", arg |-> blocks,
                pre |-> FlatMapBlocks(blocks),
                ret |-> extractNearbyPlaces(blocks)]
  /\ UNCHANGED <<serverVars, auxVars>>

CallExtractFeatures ==
  /\ call.fn = "none"
  /\ \E spans \in Seqs(SpanTexts, MaxFeatures) :
       call' = [fn |-> "extractFeatures", arg |-> spans,
                pre |-> TrimAll(spans),
                ret |-> extractFeatures(spans)]
  /\ UNCHANGED <<serverVars, auxVars>>

CallRoomAmenities ==
  /\ call.fn = "none"
  /\ \E spans \in Seqs(SpanTexts, MaxFeatures) :
       call' = [fn |-> "roomAmenities", arg |-> spans,
                pre |-> TrimAll(spans),
                ret |-> roomAmenities(spans)]
  /\ UNCHANGED <<serverVars, auxVars>>

\* hotelData.galleryImages = [...new Set(galleryImages)] after the handler
\* has seen reqs.
CallMergeGallery ==
  /\ call.fn = "none"
  /\ \E reqs \in Seqs(Requests, MaxRequests) :
       call' = [fn |-> "mergeGallery", arg |-> reqs,
                pre |-> ObserveAll(reqs),
                ret |-> SetSpread(ObserveAll(reqs))]
  /\ UNCHANGED <<serverVars, auxVars>>

(***************************************************************************)
(* extractRating.  The container is absent, or holds the texts of its      *)
(* div[aria-hidden="true"] elements.  A number is written as the sequence  *)
(* of its digit groups: <<"9", "234">> is 9234.                            *)
(***************************************************************************)
MaxRatingLen == 5   \* tokens of the text of one div of the score container

DigitTokens == {"9", "234"}
RatingTokens == DigitTokens \cup {"sp", ",", "w"}

\* text.replace(",", "."): the first comma only.
CommaToPeriod(s) == ReplaceFirst(s, <<",">>, <<".">>)

\* text.match(/[\d\s]+/): the leftmost maximal run of digits and whitespace,
\* <<>> with found = FALSE when there is none.
RECURSIVE TakeDigitsAndSpaces(_)
TakeDigitsAndSpaces(s) ==
  IF s # <<>> /\ s[1] \in DigitTokens \cup Whitespace
  THEN <<s[1]>> \o TakeDigitsAndSpaces(Tail(s))
  ELSE <<>>

RECURSIVE MatchDigitsAndSpaces(_)
MatchDigitsAndSpaces(s) ==
  IF s = <<>> THEN [found |-> FALSE, run |-> <<>>]
  ELSE IF s[1] \in DigitTokens \cup Whitespace
  THEN [found |-> TRUE, run |-> TakeDigitsAndSpaces(s)]
  ELSE MatchDigitsAndSpaces(Tail(s))

\* run.replace(/\s/g, "")
RECURSIVE RemoveSpaces(_)
RemoveSpaces(s) ==
  IF s = <<>> THEN <<>>
  ELSE IF s[1] \in Whitespace THEN RemoveSpaces(Tail(s))
  ELSE <<s[1]>> \o RemoveSpaces(Tail(s))

JsNull == [kind |-> "null", digits |-> <<>>]
JsNaN == [kind |-> "NaN", digits |-> <<>>]
JsInt(ds) == [kind |-> "int", digits |-> ds]

\* parseInt(s, 10) of a string of digits: NaN for the empty string.
ParseInt(s) == IF s = <<>> THEN JsNaN ELSE JsInt(s)

NoText == [null |-> TRUE, s |-> <<>>]
Text(s) == [null |-> FALSE, s |-> s]

NoContainer == [present |-> FALSE, divs |-> <<>>]
Container(divs) == [present |-> TRUE, divs |-> divs]

extractRating(c) ==
  IF ~c.present
  THEN [score |-> NoText, totalReviews |-> JsNull]
  ELSE LET elements == [i \in 1..Len(c.divs) |-> CommaToPeriod(Trim(c.divs[i]))]
           text == IF Len(elements) >= 2 THEN elements[2] ELSE <<>>
           match == MatchDigitsAndSpaces(text)
       IN [score |-> IF Len(elements) >= 1 /\ elements[1] # <<>>
                     THEN Text(elements[1]) ELSE NoText,
           totalReviews |-> IF match.found
                            THEN ParseInt(RemoveSpaces(match.run))
                            ELSE JsNull]

\* Pages without a score container, with an empty one, with one div of any
\* text, and with a score div followed by a second div of any text.
RatingContainers ==
  {NoContainer, Container(<<>>)}
  \cup { Container(<<s>>) : s \in Seqs(RatingTokens, MaxRatingLen) }
  \cup { Container(<< <<"9", ",", "234">>, t >>) : t \in Seqs(RatingTokens, MaxRatingLen) }

CallExtractRating ==
  /\ call.fn = "none"
  /\ \E c \in RatingContainers :
       call' = [fn |-> "extractRating", arg |-> c,
                pre |-> <<>>,
                ret |-> extractRating(c)]
  /\ UNCHANGED <<serverVars, auxVars>>

Return ==
  /\ call.fn # "none"
  /\ call' = NoCall
  /\ UNCHANGED <<serverVars, auxVars>>

NextExtract ==
  \/ CallExtractReviews
  \/ CallExtractNearbyPlaces
  \/ CallExtractFeatures
  \/ CallRoomAmenities
  \/ CallMergeGallery
  \/ CallExtractRating
  \/ Return

SpecExtract == Init /\ [][NextExtract]_vars


(***************************************************************************)
(* The server under concurrent clients.  Every client holds at most one    *)
(* POST /scrape request; the scrape a request starts is reduced to its     *)
(* session id and to the way it settles.  GET /health is answered at any   *)
(* time.                                                                   *)
(***************************************************************************)
\* Number.prototype.toString: the decimal digits of n.
RECURSIVE toString(_)
toString(n) == IF n < 10 THEN <<n>> ELSE toString(n \div 10) \o <<n % 10>>

\* Date.prototype.toISOString of the clock reading t.
toISOString(t) == <<"T">> \o toString(t) \o <<"Z">>

InProgress == {c \in Clients : scrapes[c].pc = "scraping"}
Failed == {c \in Clients : scrapes[c].pc = "responded" /\ scrapes[c].code = 500}

\* A health handler that leaves the timestamp out.
HealthNoTimestamp(t) == [code |-> 200, status |-> "ok", timestamp |-> <<>>]

\* res.json({ status: "ok", timestamp: new Date().toISOString() })
HealthResponse(t) == [code |-> 200, status |-> "ok", timestamp |-> toISOString(t)]

\* The clock advances by a millisecond.
Tick ==
  /\ clock < MaxClock
  /\ clock' = clock + 1
  /\ UNCHANGED <<serverVars, call, sweepVars, dataVars, roomVars, obsVars, scrapes, health>>

\* app.get("/health"); the response is kept with the number of scrapes in
\* progress and of failed scrapes at the time it was served.
GetHealth ==
  /\ health' = [code |-> HealthResponse(clock).code,
                status |-> HealthResponse(clock).status,
                timestamp |-> HealthResponse(clock).timestamp,
                inProgress |-> Cardinality(InProgress),
                failed |-> Cardinality(Failed)]
  /\ UNCHANGED <<serverVars, call, sweepVars, dataVars, roomVars, obsVars, clock, scrapes>>

\* app.post("/scrape") for client c, up to the response or to the first
\* await of scrapeHotelData, which has taken its session id by then.
ClientPosts(c, u) ==
  /\ scrapes[c].pc \in {"idle", "responded"}
  /\ scrapes' = [scrapes EXCEPT ![c] =
       IF isValidBookingUrlThrows(u)
       THEN [NoScrape EXCEPT !.pc = "responded", !.code = 500]
       ELSE IF ~isValidBookingUrl(u)
       THEN [NoScrape EXCEPT !.pc = "responded", !.code = 400]
       ELSE [NoScrape EXCEPT !.pc = "scraping", !.sessionId = toString(clock)]]
  /\ UNCHANGED <<serverVars, call, sweepVars, dataVars, roomVars, obsVars, clock, health>>

\* The scrape of client c settles and the handler responds: with the data,
\* with the failure and its diagnostics, or with the rejection.
ScrapeSettles(c, how) ==
  /\ scrapes[c].pc = "scraping"
  /\ scrapes' = [scrapes EXCEPT ![c] =
       IF how = "success"
       THEN [NoScrape EXCEPT !.pc = "responded", !.code = 200]
       ELSE IF how = "failure"
       THEN [@ EXCEPT !.pc = "responded", !.code = 500, !.diagnostics = TRUE]
       ELSE [NoScrape EXCEPT !.pc = "responded", !.code = 500]]
  /\ UNCHANGED <<serverVars, call, sweepVars, dataVars, roomVars, obsVars, clock, health>>

NextServer ==
  \/ Tick
  \/ GetHealth
  \/ \E c \in Clients, u \in BodyUrls : ClientPosts(c, u)
  \/ \E c \in Clients, how \in {"success", "failure", "rejected"} :
       ScrapeSettles(c, how)

SpecServer == Init /\ [][NextServer]_vars


(***************************************************************************)
(* extractHotelData on one page.  The page is given by what each           *)
(* extractor's selectors match; the detail panels of the room table are    *)
(* the only part of it that changes while extractHotelData runs.           *)
(***************************************************************************)
\* extractHotelName: titles are the texts of the elements the seven
\* selectors match, in selector order; h2 is the text of the first h2.
RECURSIVE FirstNonBlank(_)
FirstNonBlank(texts) ==
  IF texts = <<>> THEN <<>>
  ELSE IF Trim(texts[1]) # <<>> THEN Trim(texts[1])
  ELSE FirstNonBlank(Tail(texts))

\* x || null for a string x
OrNull(s) == IF s = <<>> THEN NoText ELSE Text(s)

extractHotelName(titles, h2) ==
  IF FirstNonBlank(titles) # <<>>
  THEN Text(FirstNonBlank(titles))
  ELSE IF h2 = <<>> THEN NoText ELSE OrNull(Trim(h2[1]))

\* extractAddress: divs are the first-child texts of the "button div"
\* elements whose text has a country name or a postal code.
extractAddress(divs) ==
  IF divs = <<>> THEN NoText
  ELSE IF divs[1] = <<>> THEN NoText
  ELSE OrNull(Trim(divs[1][1]))

\* A description extractor that answers null when nothing matches.
extractDescriptionOrNull(els) == OrNull(FirstNonBlank(els))

\* extractDescription: the first non-blank text, "" when there is none.
extractDescription(els) == Text(FirstNonBlank(els))

\* extractCheckTimes: timeTexts are the trimmed texts of the elements of
\* the body that have the form of a check-in or check-out time.
extractCheckTimes(timeTexts) ==
  [checkin |-> IF Len(timeTexts) >= 1 THEN OrNull(timeTexts[1]) ELSE NoText,
   checkout |-> IF Len(timeTexts) >= 2 THEN OrNull(timeTexts[2]) ELSE NoText]

FieldExtractors == {"extractHotelName", "extractAddress", "extractDescription",
                    "extractRating", "extractFeatures", "extractReviews",
                    "extractCheckTimes", "extractNearbyPlaces"}

\* A page on which no selector of any extractor matches.
EmptyPage ==
  [titles |-> <<>>, h2 |-> <<>>, address |-> <<>>, description |-> <<>>,
   rating |-> NoContainer, features |-> <<>>, reviews |-> <<>>,
   timeTexts |-> <<>>, places |-> <<>>, rows |-> <<>>]

\* A page on which every extractor finds its elements (the room table
\* apart).
FullPage ==
  [titles |-> << <<"sp">>, <<"Riad", "sp">> >>, h2 |-> << <<"Rooms">> >>,
   address |-> << << <<"sp", "Rue", "sp">> >> >>,
   description |-> << <<"A", "sp", "riad">> >>,
   rating |-> Container(<< <<"9", ",", "234">>, <<"234", "sp", "w">> >>),
   features |-> << <<"Pool">>, <<"Pool">> >>,
   reviews |-> << ReviewBlock("Ann", <<"quot", "a", "quot">>) >>,
   timeTexts |-> << <<"From 14:00 to 23:00">>, <<"Until 12:00">> >>,
   places |-> << PoiBlock(<<"Restaurants">>,
                          << PoiItem(<<"Restaurant", "sp", "x">>, <<"1 km">>) >>) >>,
   rows |-> <<>>]

\* The parts of a page each extractor reads.
Parts ==
  [extractHotelName |-> {"titles", "h2"}, extractAddress |-> {"address"},
   extractDescription |-> {"description"}, extractRating |-> {"rating"},
   extractFeatures |-> {"features"}, extractReviews |-> {"reviews"},
   extractCheckTimes |-> {"timeTexts"}, extractNearbyPlaces |-> {"places"},
   extractRooms |-> {"rows"}]

\* FullPage with the parts in absent emptied, EmptyPage with the parts not
\* in absent filled.
PageWithout(absent) ==
  [part \in DOMAIN FullPage |->
     IF part \in absent THEN EmptyPage[part] ELSE FullPage[part]]

\* What the extractor named f returns on page p.
Extract(f, p) ==
  CASE f = "extractHotelName" -> extractHotelName(p.titles, p.h2)
    [] f = "extractAddress" -> extractAddress(p.address)
    [] f = "extractDescription" -> extractDescription(p.description)
    [] f = "extractRating" -> extractRating(p.rating)
    [] f = "extractFeatures" -> extractFeatures(p.features)
    [] f = "extractReviews" -> extractReviews(p.reviews)
    [] f = "extractCheckTimes" -> extractCheckTimes(p.timeTexts)
    [] f = "extractNearbyPlaces" -> extractNearbyPlaces(p.places)


\* The hotelData object extractHotelData starts from.
InitialHotelData ==
  [hotelName |-> Text(<<>>), address |-> Text(<<>>), description |-> Text(<<>>),
   rating |-> [score |-> NoText, totalReviews |-> JsNull],
   galleryImages |-> <<>>, features |-> <<>>, rooms |-> <<>>, reviews |-> <<>>,
   checkin |-> Text(<<>>), checkout |-> Text(<<>>), nearbyPlaces |-> <<>>]

\* hotelData after the results of Promise.all are assigned.
AssignFields(h, p) ==
  [h EXCEPT !.hotelName = Extract("extractHotelName", p),
            !.address = Extract("extractAddress", p),
            !.description = Extract("extractDescription", p),
            !.rating = Extract("extractRating", p),
            !.features = Extract("extractFeatures", p),
            !.reviews = Extract("extractReviews", p),
            !.checkin = Extract("extractCheckTimes", p).checkin,
            !.checkout = Extract("extractCheckTimes", p).checkout,
            !.nearbyPlaces = Extract("extractNearbyPlaces", p)]

\* scrapeHotelData passes addStep as logStep.
logStep(t, step, e) == addStep(t, step, e)

\* The join of the sequential version: extractRooms is called after
\* features, before reviews, check times and nearby places.
FirstFiveSettled(e) ==
  \A f \in {"extractHotelName", "extractAddress", "extractDescription",
            "extractRating", "extractFeatures"} : e[f] = "fulfilled"

\* Promise.all has every result.
AllSettled(e) == \A f \in FieldExtractors : e[f] = "fulfilled"

\* extractHotelData is called on page p: the eight field extractors are
\* called and Promise.all awaits them.
CallExtractHotelData(p) ==
  /\ dpc = "idle"
  /\ dpc' = "parallel"
  /\ page' = p
  /\ ex' = [f \in FieldExtractors |-> "running"]
  /\ hotelData' = InitialHotelData
  /\ trace' = logStep(<<>>, "Extracting data in parallel", NoErr)
  /\ UNCHANGED <<thrown, roomVars, serverVars, call, sweepVars, concVars, obsVars>>

\* The promise of field extractor f is fulfilled.  With the last of them
\* Promise.all resolves: the fields are assigned and extractRooms is called.
ExtractorSettles(f) ==
  /\ dpc = "parallel"
  /\ ex[f] = "running"
  /\ ex' = [ex EXCEPT ![f] = "fulfilled"]
  /\ IF AllSettled(ex')
     THEN /\ hotelData' = AssignFields(hotelData, page)
          /\ trace' = logStep(logStep(trace, "Parallel extraction complete", NoErr),
                              "Extracting rooms", NoErr)
          /\ dpc' = "rooms"
          /\ rpc' = "next"
     ELSE UNCHANGED <<hotelData, trace, dpc, rpc>>
  /\ UNCHANGED <<page, thrown, row, results, panels, pending, clicks,
                 serverVars, call, sweepVars, concVars, obsVars>>

\* The promise of field extractor f is rejected: Promise.all rejects, the
\* catch block logs and re-throws.
ExtractorRejects(f) ==
  /\ dpc = "parallel"
  /\ ex[f] = "running"
  /\ ex' = [ex EXCEPT ![f] = "rejected"]
  /\ trace' = logStep(trace, "Error during extraction", OpError(f))
  /\ thrown' = OpError(f)
  /\ dpc' = "thrown"
  /\ UNCHANGED <<page, hotelData, roomVars, serverVars, call, sweepVars, concVars, obsVars>>

(***************************************************************************)
(* extractRooms.  A row of the room table has at most one name element and *)
(* one occupancy element; render says whether the detail panel its name    *)
(* opens is in the document when the settle delay ends ("intime"), later   *)
(* ("late") or not at all ("never"); close says whether the panel has a    *)
(* control labelled "Close banner".                                        *)
(***************************************************************************)
Renders == {"intime", "late", "never"}

\* The rows of a page: row i is named after its position.
RowKinds ==
  { [name |-> TRUE, occupancy |-> TRUE, render |-> "intime", close |-> TRUE],
    [name |-> TRUE, occupancy |-> TRUE, render |-> "intime", close |-> FALSE],
    [name |-> TRUE, occupancy |-> TRUE, render |-> "late", close |-> TRUE],
    [name |-> TRUE, occupancy |-> TRUE, render |-> "never", close |-> TRUE],
    [name |-> FALSE, occupancy |-> TRUE, render |-> "intime", close |-> TRUE],
    [name |-> TRUE, occupancy |-> FALSE, render |-> "intime", close |-> TRUE] }

\* The numeral that names position i.
Numerals == <<"1", "2", "3", "4", "5", "6", "7", "8", "9">>

RowAt(kinds, i) ==
  [name |-> IF kinds[i].name THEN << <<"sp", "Room", Numerals[i]>> >> ELSE <<>>,
   occupancy |-> IF kinds[i].occupancy
                 THEN << <<"Max", "sp", Numerals[i], "sp", "adults">> >> ELSE <<>>,
   render |-> kinds[i].render,
   close |-> kinds[i].close]

Range(s) == {s[i] : i \in 1..Len(s)}

Rows(kinds) == [i \in 1..Len(kinds) |-> RowAt(kinds, i)]

\* occupancyText.match(/(\d+)\s+adult/i), then parseInt of the group
RECURSIVE maxOccupancy(_)
maxOccupancy(label) ==
  IF Len(label) < 3 THEN JsNull
  ELSE IF label[1] \in Range(Numerals) /\ label[2] \in Whitespace
          /\ label[3] \in {"adult", "adults", "Adults"}
  THEN JsInt(<<label[1]>>)
  ELSE maxOccupancy(Tail(label))

\* The content of the detail panel of row j.
Panel(j) ==
  [description |-> << <<"sp", "About", Numerals[j]>> >>,
   size |-> << <<"20 m2">> >>,
   badges |-> << <<"WiFi">>, <<"WiFi", "sp">> >>,
   photos |-> << <<"cf">> \o LowResToken \o <<Numerals[j]>> \o LowResToken >>]

NormalizeAll(urls) == [i \in 1..Len(urls) |-> NormalizeImageUrl(urls[i])]

\* The record pushed for row r, read from the panel popup.
RoomRecord(r, popup) ==
  [name |-> Trim(r.name[1]),
   maxOccupancy |-> maxOccupancy(r.occupancy[1]),
   description |-> FirstNonBlank(popup.description),
   images |-> SetSpread(NormalizeAll(popup.photos)),
   size |-> FirstNonBlank(popup.size),
   amenities |-> roomAmenities(popup.badges)]

\* document.querySelector('[aria-label="Close banner"]'): the first panel
\* of the document that has the control, 0 when there is none.
RECURSIVE CloseControl(_, _)
CloseControl(ps, rows) ==
  IF ps = <<>> THEN 0
  ELSE IF rows[ps[1]].close THEN ps[1]
  ELSE CloseControl(Tail(ps), rows)

Remove(ps, j) == SelectSeq(ps, LAMBDA x : x # j)

Click(i, what) == [row |-> i, what |-> what]

\* The loop takes the next row: a row without a name or an occupancy
\* element is passed over, any other row's name is clicked and the settle
\* delay starts; after the last row the results are returned and
\* extractHotelData returns hotelData.
NextRow ==
  /\ dpc = "rooms"
  /\ rpc = "next"
  /\ UNCHANGED <<page, ex, thrown, serverVars, call, sweepVars, concVars, obsVars>>
  /\ IF row = Len(page.rows)
     THEN /\ hotelData' = [hotelData EXCEPT !.rooms = results]
          /\ trace' = logStep(trace, "Rooms extracted", NoErr)
          /\ dpc' = "returned"
          /\ rpc' = "done"
          /\ UNCHANGED <<row, results, panels, pending, clicks>>
     ELSE LET r == page.rows[row + 1]
          IN /\ row' = row + 1
             /\ UNCHANGED <<hotelData, trace, dpc, results>>
             /\ IF r.name = <<>> \/ r.occupancy = <<>>
                THEN UNCHANGED <<rpc, panels, pending, clicks>>
                ELSE /\ clicks' = Append(clicks, Click(row + 1, "open"))
                     /\ rpc' = "settle"
                     /\ panels' = IF r.render = "intime"
                                  THEN Append(panels, row + 1) ELSE panels
                     /\ pending' = IF r.render = "late"
                                   THEN pending \cup {row + 1} ELSE pending

\* The settle delay is over: without a panel in the document the loop
\* continues; otherwise the first panel of the document is read, the record
\* pushed, the close control (if any) clicked, and the second delay starts.
SettleDone ==
  /\ dpc = "rooms"
  /\ rpc = "settle"
  /\ UNCHANGED <<dataVars, row, pending, serverVars, call, sweepVars, concVars, obsVars>>
  /\ IF panels = <<>>
     THEN /\ rpc' = "next"
          /\ UNCHANGED <<results, panels, clicks>>
     ELSE LET c == CloseControl(panels, page.rows)
          IN /\ results' = Append(results,
                                  RoomRecord(page.rows[row], Panel(panels[1])))
             /\ rpc' = "closeDelay"
             /\ IF c = 0
                THEN UNCHANGED <<panels, clicks>>
                ELSE /\ panels' = Remove(panels, c)
                     /\ clicks' = Append(clicks, Click(c, "close"))

\* The delay after the close click is over.
CloseDelayDone ==
  /\ dpc = "rooms"
  /\ rpc = "closeDelay"
  /\ rpc' = "next"
  /\ UNCHANGED <<dataVars, row, results, panels, pending, clicks,
                 serverVars, call, sweepVars, concVars, obsVars>>

\* The page renders a panel that was requested earlier.
PanelRenders(j) ==
  /\ dpc = "rooms"
  /\ j \in pending
  /\ pending' = pending \ {j}
  /\ panels' = Append(panels, j)
  /\ UNCHANGED <<dataVars, row, rpc, results, clicks, serverVars, call, sweepVars, concVars, obsVars>>

\* The promise of extractRooms is rejected: the catch block logs and
\* re-throws.
RoomsReject ==
  /\ dpc = "rooms"
  /\ trace' = logStep(trace, "Error during extraction", OpError("extractRooms"))
  /\ thrown' = OpError("extractRooms")
  /\ dpc' = "thrown"
  /\ UNCHANGED <<page, ex, hotelData, roomVars, serverVars, call, sweepVars, concVars, obsVars>>

GalleryLists ==
  { <<>>,
    << <<"cf">> \o HighResToken \o <<"a">> >>,
    << <<"cf">> \o HighResToken \o <<"a">>, <<"cf">> \o HighResToken \o <<"a">> >> }

\* scrapeHotelData merges the observed gallery images into the record.
MergeGallery(imgs) ==
  /\ dpc = "returned"
  /\ hotelData' = [hotelData EXCEPT !.galleryImages = SetSpread(imgs)]
  /\ dpc' = "merged"
  /\ UNCHANGED <<page, ex, thrown, trace, roomVars, serverVars, call, sweepVars, concVars, obsVars>>

\* Pages on which one extractor alone finds nothing, or one alone finds
\* something, with no room table; a page with a single time text; and full
\* pages with any room table.
Pages ==
  {EmptyPage, FullPage}
  \cup { PageWithout(Parts[f]) : f \in DOMAIN Parts }
  \cup { PageWithout((DOMAIN FullPage) \ Parts[f]) : f \in DOMAIN Parts }
  \cup { [FullPage EXCEPT !.timeTexts = << <<"Until 12:00">> >>] }
  \cup { [FullPage EXCEPT !.rows = Rows(kinds)] : kinds \in Seqs(RowKinds, MaxRows) }

NextData ==
  \/ \E p \in Pages : CallExtractHotelData(p)
  \/ \E f \in FieldExtractors : ExtractorSettles(f)
  \/ \E f \in FieldExtractors : ExtractorRejects(f)
  \/ NextRow
  \/ SettleDone
  \/ CloseDelayDone
  \/ \E j \in 1..MaxRows : PanelRenders(j)
  \/ RoomsReject
  \/ \E imgs \in GalleryLists : MergeGallery(imgs)

SpecData == Init /\ [][NextData]_vars


(***************************************************************************)
(* The request handler of scrapeHotelData and the merge of the observed    *)
(* images into the record.                                                 *)
(***************************************************************************)
\* What the handler does with req: the calls of req.abort and req.continue
\* it makes, and whether the record had its gallery images by then.
Handled(req, merged) ==
  [req |-> req,
   aborts |-> IF IsBlocked(req) THEN 1 ELSE 0,
   continues |-> IF IsBlocked(req) THEN 0 ELSE 1,
   merged |-> merged]

\* The page issues req and the handler runs.
Intercept(req) ==
  /\ Len(handled) < MaxRequests
  /\ handled' = Append(handled, Handled(req, returned.done))
  /\ galleryImages' = Observe(galleryImages, req)
  /\ UNCHANGED <<pc, url, pageUrl, status, currentUrl, finalUrl, tab, diag,
                 browser, calls, reqCount, result, outcome, rejection,
                 response, call, sweepVars, concVars, dataVars, roomVars,
                 returned>>

\* hotelData.galleryImages = [...new Set(galleryImages)]
Merge ==
  /\ ~returned.done
  /\ returned' = [done |-> TRUE, images |-> SetSpread(galleryImages)]
  /\ UNCHANGED <<serverVars, call, sweepVars, concVars, dataVars, roomVars, handled>>

NextObserver ==
  \/ \E req \in Requests : Intercept(req)
  \/ Merge

SpecObserver == Init /\ [][NextObserver]_vars

(***************************************************************************)
(* One call of scrapeHotelData with the scroll sweep and the room loop     *)
(* step by step.  autoScroll (utils.js) sets an interval timer of 100 ms;  *)
(* every tick reads document.body.scrollHeight, scrolls by 100 px, adds    *)
(* 100 to totalHeight and, once totalHeight has reached the height just    *)
(* read, clears the timer and resolves.  Heights are in px.  Between two   *)
(* ticks the page may grow (lazy content); it grows by a whole step or     *)
(* more at most MaxBursts times.                                           *)
(***************************************************************************)
MaxHeight == 3
MaxBursts == 1

distance == 100

\* document.body.scrollHeight at the first tick.
Heights == {50 * k : k \in 0..(2 * MaxHeight)}

\* By how much the page grows between two ticks.
Growths == {0, 50, 100}

\* How often the page grew by a whole step or more between two reads.
Bursts(hs) ==
  Cardinality({i \in 2..Len(hs) : hs[i] - hs[i - 1] >= distance})

\* A tick of the interval timer: the page has height h at the first tick
\* and has grown by g since the tick before at every other.
ScrollTick(h, g) ==
  /\ pc = "scroll"
  /\ timer # "cleared"
  /\ heights # <<>> /\ g >= distance => Bursts(heights) < MaxBursts
  /\ LET scrollHeight == IF heights = <<>> THEN h
                         ELSE heights[Len(heights)] + g
     IN /\ heights' = Append(heights, scrollHeight)
        /\ totalHeight' = totalHeight + distance
        /\ timer' = IF totalHeight' >= scrollHeight THEN "cleared" ELSE "set"
  /\ UNCHANGED <<serverVars, call, concVars, dataVars, roomVars, obsVars>>

\* The timer is cleared and the first page.evaluate resolves; the page is
\* scrolled back to the top, autoScroll returns and loadDynamicContent
\* starts on the first tab.
SweepSettles ==
  /\ pc = "scroll"
  /\ timer = "cleared"
  /\ timer' = "none"
  /\ totalHeight' = 0
  /\ heights' = <<>>
  /\ tab' = 1
  /\ calls' = Called(calls, "tabClick")
  /\ pc' = "tabs"
  /\ UNCHANGED <<url, pageUrl, status, currentUrl, finalUrl, diag, browser,
                 galleryImages, reqCount, result, outcome, rejection,
                 response, call, concVars, dataVars, roomVars, obsVars>>

\* One of the two page.evaluate calls of autoScroll rejects.
SweepRejects == ScrollSettles(FALSE)

\* The request whose scrape is followed, and what the browser answers.
ScrapeUrl == JsString(<<"booking.com", "/hotel", "/x">>)
ScrapePages == { <<"booking.com", "/hotel", "/x">>, <<"booking.com", "captcha">> }
ScrapeStatuses == {200, 404}

\* The room tables of the page.
ScrapeRowKinds ==
  { [name |-> TRUE, occupancy |-> TRUE, render |-> "intime", close |-> TRUE],
    [name |-> TRUE, occupancy |-> TRUE, render |-> "late", close |-> TRUE],
    [name |-> FALSE, occupancy |-> TRUE, render |-> "intime", close |-> TRUE] }

\* scrapeHotelData is called once.
Scrape(u) ==
  /\ pc = "idle"
  /\ PostScrape(u)

\* extractRooms is called: the function evaluated in the page takes the
\* rows the room table has now.
CallExtractRooms(kinds) ==
  /\ pc = "rooms"
  /\ dpc = "idle"
  /\ dpc' = "rooms"
  /\ rpc' = "next"
  /\ page' = [FullPage EXCEPT !.rows = Rows(kinds)]
  /\ hotelData' = InitialHotelData
  /\ UNCHANGED <<ex, thrown, trace, row, results, panels, pending, clicks,
                 serverVars, call, sweepVars, concVars, obsVars>>

\* extractRooms has returned its results to extractHotelData.
RoomsReturn ==
  /\ dpc = "returned"
  /\ RoomsSettles(TRUE)

\* extractRooms has rejected.
RoomsThrow ==
  /\ dpc = "thrown"
  /\ RoomsSettles(FALSE)

\* The steps the call takes when an operation it awaits settles or a timer
\* it set fires.
Settling ==
  \/ \E ok \in BOOLEAN : LaunchSettles(ok)
  \/ \E ok \in BOOLEAN : NewPageSettles(ok)
  \/ \E ok \in BOOLEAN : PageSetupSettles(ok)
  \/ GotoRejects
  \/ \E u \in ScrapePages : GotoNoResponse(u)
  \/ \E st \in ScrapeStatuses, u \in ScrapePages : GotoResponds(st, u)
  \/ \E found \in BOOLEAN, u \in ScrapePages : TitleWaitSettles(found, u)
  \/ \E u \in ScrapePages : GraceDelayDone(u)
  \/ \E navigated \in BOOLEAN, u \in ScrapePages : CaptchaWaitSettles(navigated, u)
  \/ \E ok \in BOOLEAN : WaitBodySettles(ok)
  \/ \E h \in Heights, g \in Growths : ScrollTick(h, g)
  \/ SweepSettles
  \/ SweepRejects
  \/ \E ok \in BOOLEAN : TabSettles(ok)
  \/ \E ok \in BOOLEAN : ParallelSettles(ok)
  \/ \E kinds \in Seqs(ScrapeRowKinds, MaxRows) : CallExtractRooms(kinds)
  \/ NextRow
  \/ SettleDone
  \/ CloseDelayDone
  \/ RoomsReject
  \/ RoomsReturn
  \/ RoomsThrow
  \/ \E ok \in BOOLEAN : CloseSettles(ok)
  \/ Respond

NextSettle ==
  \/ Scrape(ScrapeUrl)
  \/ Settling
  \/ \E j \in 1..MaxRows : PanelRenders(j)

\* Every operation the call awaits settles and every timer it set fires.
SpecSettle == Init /\ [][NextSettle]_vars /\ WF_vars(Settling)


(***************************************************************************)
(* Properties.                                                             *)
(***************************************************************************)
Settled == pc \in {"settled", "responded"} /\ calls["scrapeHotelData"] = 1
Logged(e) == \E i \in 1..Len(diag) : diag[i].step = "Error" /\ diag[i].message = e
NoExtraction == calls["fieldExtractors"] = 0 /\ calls["extractRooms"] = 0
NoPageWork == calls["autoScroll"] = 0 /\ calls["tabClick"] = 0 /\ NoExtraction
UrlHasMarker(u) == u.t = "string" /\ Includes(u.s, Marker)

\* C1: every POST /scrape whose body url does not contain "booking.com/hotel"
\* (absent, empty, a string without the marker, a non-string JSON value) is
\* answered with HTTP 400, an error message and an example URL, and
\* scrapeHotelData is never invoked for it.
C1_InvalidUrlGets400 ==
  (pc = "responded" /\ ~UrlHasMarker(url)) =>
     /\ response.code = 400
     /\ response.error # ""
     /\ response.example
     /\ calls["scrapeHotelData"] = 0

\* C2: whenever the browser was launched, browser.close() has been invoked
\* exactly once by the time the promise of scrapeHotelData settles, whichever
\* later step succeeded or failed; it is never invoked twice, and no scrape
\* settles with a launched browser on which close() was not invoked.
C2_BrowserClosedOnce ==
  /\ calls["close"] <= 1
  /\ (browser = "null" => calls["close"] = 0)
  /\ (outcome \in {"fulfilled", "rejected"} /\ browser # "null") =>
        (calls["close"] = 1 /\ browser # "open")

C2_Witness ==
  /\ pc = "settled"
  /\ outcome = "fulfilled"
  /\ ~result.success
  /\ result.error = OpError("autoScroll")
  /\ browser = "closed"
  /\ calls["close"] = 1

\* C3: every validated POST /scrape whose scrape fails at any stage (launch,
\* page setup, navigation, status or URL check, extraction, browser close) is
\* answered with HTTP 500 carrying error, details and diagnostics, the
\* diagnostics being the request's trace with a step that records the
\* failure message.
C3_FailureGets500WithDiagnostics ==
  (pc = "responded" /\ calls["scrapeHotelData"] = 1
     /\ (outcome = "rejected" \/ ~result.success)) =>
     /\ response.code = 500
     /\ response.error # ""
     /\ response.details # NoErr
     /\ response.hasDiagnostics
     /\ response.diagnostics = diag
     /\ \E i \in 1..Len(response.diagnostics) :
          response.diagnostics[i].message = response.details

\* C4: with navigation status 403 the scrape fails: the trace holds an error
\* step with the "Access denied ... Bot detection" message, the value the
\* scrape returns is a failure with that message and so is the HTTP response
\* built from it; with 404 the same with the distinct "Page not found"
\* message; in both cases no scroll, tab click or extractor runs.
C4_StatusErrors ==
  \A st \in {403, 404} :
    LET e == IF st = 403 THEN AccessDeniedError ELSE NotFoundError
    IN (status = st) =>
         /\ NoPageWork
         /\ pc \in {"titleWait", "close", "settled", "responded"}
         /\ pc # "titleWait" =>
              /\ Logged(e)
              /\ result.made /\ ~result.success /\ result.error = e
         /\ (pc = "responded" /\ outcome = "fulfilled") =>
              /\ response.code = 500
              /\ response.details = e
              /\ \E i \in 1..Len(response.diagnostics) :
                   response.diagnostics[i].message = e

C4_Witness ==
  /\ pc = "responded"
  /\ status = 403
  /\ response.code = 500
  /\ response.details = AccessDeniedError
  /\ Logged(AccessDeniedError)
  /\ NoPageWork

\* C5: a navigation without a response object, or with a status other than
\* 200, 403 and 404, is fatal: the scrape returns a failure and no extractor
\* runs.
C5_OtherStatusFatal ==
  /\ Logged(NoResponseError) => (NoExtraction /\ ~result.success)
  /\ (status \notin {0, 200, 403, 404}) =>
        /\ NoExtraction
        /\ Settled => ~result.success

\* C6: whenever the page URL read after the soft-block handling lacks
\* "booking.com/hotel", the scrape fails with the wrong-page error naming
\* that URL; the extractors run only when that URL contains the marker.
C6_WrongPage ==
  /\ (finalUrl # <<>> /\ ~Includes(finalUrl, Marker)) =>
        /\ Logged(WrongPageError(finalUrl))
        /\ result.made /\ ~result.success
        /\ result.error = WrongPageError(finalUrl)
        /\ NoPageWork
        /\ (pc = "responded" /\ outcome = "fulfilled") =>
              (response.code = 500 /\ response.details = WrongPageError(finalUrl))
  /\ ~NoExtraction => Includes(finalUrl, Marker)

C6_Witness ==
  /\ pc = "responded"
  /\ Includes(currentUrl, Marker)
  /\ finalUrl = <<"booking.com", "/x">>
  /\ response.details = WrongPageError(finalUrl)
  /\ NoPageWork

\* C8: every URL of the returned galleryImages holds the high-resolution
\* token "max1024x768" and none holds the low-resolution token "max300".
C8_GalleryHighRes ==
  result.success =>
    \A i \in 1..Len(result.data.galleryImages) :
      /\ Includes(result.data.galleryImages[i], HighResToken)
      /\ ~Includes(result.data.galleryImages[i], LowResToken)

NoDuplicates(xs) == \A i, j \in 1..Len(xs) : i # j => xs[i] # xs[j]
Occurs(xs, x) == \E i \in 1..Len(xs) : xs[i] = x
FirstIndex(xs, x) ==
  CHOOSE i \in 1..Len(xs) : xs[i] = x /\ \A j \in 1..(i - 1) : xs[j] # x
FirstAppearanceOrder(pre, ret) ==
  /\ \A j \in 1..Len(ret) : Occurs(pre, ret[j])
  /\ \A j1, j2 \in 1..Len(ret) :
       j1 < j2 => FirstIndex(pre, ret[j1]) < FirstIndex(pre, ret[j2])

QuoteChars == {"ldquo", "rdquo", "quot", "laquo", "raquo"}

\* C9: the text of every emitted review neither begins nor ends with a
\* quotation mark of the stripped set (straight double quote, curly double
\* quotes, guillemets).
C9_NoQuoteAtEnds ==
  call.fn = "extractReviews" =>
    \A i \in 1..Len(call.ret) :
      LET t == call.ret[i].text
      IN t # <<>> => (t[1] \notin QuoteChars /\ t[Len(t)] \notin QuoteChars)

\* C10: the name of every emitted nearby place does not begin with one of
\* the category words Restaurant, Train, Airport, in any letter case.
C10_NoCategoryPrefix ==
  call.fn = "extractNearbyPlaces" =>
    \A i \in 1..Len(call.ret) :
      LET p == call.ret[i].place
      IN p # <<>> => LowerCase(p[1]) \notin CategoryWords

\* C11: on every page with a score container, rating.score, when it is not
\* null, contains no comma: every comma of the score text has become a
\* period.
C11_ScoreHasNoComma ==
  (call.fn = "extractRating" /\ call.arg.present /\ ~call.ret.score.null) =>
     ~Includes(call.ret.score.s, <<",">>)

\* C12: GET /health is always answered with HTTP 200, status "ok" and a
\* timestamp, whatever the server is doing: no scrape started, scrapes in
\* progress, scrapes failed.
C12_HealthAlwaysOk ==
  health # NoHealth =>
     /\ health.code = 200
     /\ health.status = "ok"
     /\ health.timestamp # <<>>

\* C12 (witness): a health response served while one scrape was in progress
\* and another had failed.
C12_Witness ==
  /\ health.code = 200
  /\ health.inProgress >= 1
  /\ health.failed >= 1

RecordFields == {"hotelName", "address", "description", "rating",
                 "galleryImages", "features", "rooms", "reviews", "checkin",
                 "checkout", "nearbyPlaces"}
ListFields == {"features", "rooms", "reviews", "nearbyPlaces", "galleryImages"}

\* v is a JavaScript array: a sequence, of some length.
IsList(v) == DOMAIN v = 1..Len(v)

\* C13: the record of a successful scrape has the eleven fields; every
\* field whose selectors match nothing on the page has its null/empty value,
\* whatever the other fields find, and the five list fields are lists.
C13_BestEffortFields ==
  dpc = "merged" =>
    /\ DOMAIN hotelData = RecordFields
    /\ \A f \in ListFields : IsList(hotelData[f])
    /\ (page.titles = <<>> /\ page.h2 = <<>>) => hotelData.hotelName = NoText
    /\ page.address = <<>> => hotelData.address = NoText
    /\ page.timeTexts = <<>> => hotelData.checkin = NoText
    /\ Len(page.timeTexts) < 2 => hotelData.checkout = NoText
    /\ page.description = <<>> => hotelData.description = Text(<<>>)
    /\ ~page.rating.present =>
         hotelData.rating = [score |-> NoText, totalReviews |-> JsNull]
    /\ page.features = <<>> => hotelData.features = <<>>
    /\ page.rows = <<>> => hotelData.rooms = <<>>
    /\ page.reviews = <<>> => hotelData.reviews = <<>>
    /\ page.places = <<>> => hotelData.nearbyPlaces = <<>>

\* C13 (witness): a record returned for a page on which the description
\* selectors match nothing while every other extractor finds its elements.
C13_Witness ==
  /\ dpc = "merged"
  /\ page = PageWithout({"description"})
  /\ hotelData.description = Text(<<>>)
  /\ ~hotelData.hotelName.null
  /\ hotelData.features # <<>>

\* C13 (witness): a record returned for a page on which nothing matches.
C13_WitnessEmpty ==
  /\ dpc = "merged"
  /\ page = EmptyPage
  /\ hotelData.hotelName = NoText
  /\ hotelData.rooms = <<>>

Complete(i) == page.rows[i].name # <<>> /\ page.rows[i].occupancy # <<>>

\* The record res was read from the panel of the row it is named after.
FromOwnPanel(res) ==
  \E i \in 1..Len(page.rows) :
    /\ Complete(i)
    /\ res.name = Trim(page.rows[i].name[1])
    /\ res.description = FirstNonBlank(Panel(i).description)

\* C15: extractRooms handles the rows one at a time: a row without a name
\* or occupancy element is never clicked and gets no record (no rows: no
\* click, no record); a panel opened for a row is closed before the next
\* row is clicked, so that at most one detail panel is open at any time, and
\* every record is read from the panel of its own row.
C15_OneRowAtATime ==
  rpc # "none" =>
    /\ \A k \in 1..Len(clicks) : Complete(clicks[k].row)
    /\ \A k \in 1..Len(results) : FromOwnPanel(results[k])
    /\ page.rows = <<>> => (clicks = <<>> /\ results = <<>>)
    /\ Len(panels) <= 1

HasStep(s) == \E i \in 1..Len(diag) : diag[i].step = s

\* extractHotelData logged e and the catch of scrapeHotelData logged the
\* same error next.
Rethrown(e) ==
  \E i \in 1..(Len(diag) - 1) :
    /\ diag[i] = [step |-> "Error during extraction", message |-> e]
    /\ diag[i + 1] = [step |-> "Error", message |-> e]

\* C16: when extractHotelData was called and did not return a record (an
\* extractor threw or rejected), the trace holds an "Error during extraction"
\* step followed by the error step of the same error, the value of the scrape
\* is a failure with that error and no data, and the response carries no
\* data.
C16_ExtractionErrorFailsScrape ==
  (calls["fieldExtractors"] = 1 /\ pc \in {"close", "settled", "responded"}
     /\ ~HasStep("Extraction complete")) =>
    /\ HasStep("Error during extraction")
    /\ \E e \in {OpError("field extractor"), OpError("extractRooms")} :
         /\ Rethrown(e)
         /\ result.made /\ ~result.success
         /\ result.error = e
         /\ result.data = NoData
         /\ (pc = "responded" /\ outcome = "fulfilled") => response.details = e
    /\ pc = "responded" => (response.code = 500 /\ response.data = NoData)

\* C16 (witness): extractRooms rejected after the field extractors had
\* returned their values; the scrape answered with a failure and no data.
C16_Witness ==
  /\ pc = "responded"
  /\ calls["extractRooms"] = 1
  /\ Rethrown(OpError("extractRooms"))
  /\ ~result.success
  /\ response.code = 500
  /\ response.data = NoData
  /\ response.hasDiagnostics

TitleWarning == "Warning: Could not find hotel title selector, continuing anyway"

\* The position of the tab named in a "Could not click tab" step.
TabIndex(step) == CHOOSE t \in 1..Len(Tabs) : step.message = OpError(Tabs[t])

\* C17: a timeout of the title wait, a failure on a tab and a timeout of the
\* captcha wait are steps of the trace after which the scrape goes on with
\* the next stage, never with the error step of that failure: the status
\* check follows the title wait, the final-URL check follows the captcha
\* wait, the next tab or the extraction follows a tab; and the three tabs
\* have all been attempted, in order, when the extraction starts.
C17_LoggedAndContinued ==
  /\ \A i \in 1..(Len(diag) - 1) :
       LET s == diag[i].step
           n == diag[i + 1]
       IN /\ s = TitleWarning =>
               \/ n.step \in {"Redirect or captcha detected", "Final URL"}
               \/ n.step = "Error" /\ n.message \in {AccessDeniedError, NotFoundError}
          /\ s = "Captcha detected - waiting for resolution" =>
               n.step \in {"Navigation after captcha",
                           "Timeout waiting for captcha resolution"}
          /\ s = "Timeout waiting for captcha resolution" => n.step = "Final URL"
          /\ s = "Could not click tab" =>
               \/ n.step = "Extracting data"
               \/ n.step = "Could not click tab" /\ TabIndex(diag[i]) < TabIndex(n)
  /\ pc = "tabs" => calls["tabClick"] = tab
  /\ HasStep("Extracting data") => calls["tabClick"] = Len(Tabs)
  /\ (pc = "responded" /\ response.code = 200) => calls["tabClick"] = Len(Tabs)

\* C17 (witness): a scrape that succeeded although the title wait and the
\* captcha wait timed out and none of the three tabs could be clicked.
C17_Witness ==
  /\ pc = "responded"
  /\ response.code = 200
  /\ HasStep(TitleWarning)
  /\ HasStep("Timeout waiting for captcha resolution")
  /\ \A t \in 1..Len(Tabs) :
       \E i \in 1..Len(diag) :
         diag[i] = [step |-> "Could not click tab", message |-> OpError(Tabs[t])]

HasDigit(t) == \E i \in 1..Len(t) : t[i] \in DigitTokens

\* The digits of the first number of t, a number being digit groups
\* separated by whitespace only.
RECURSIVE FirstInteger(_)
FirstInteger(t) ==
  IF t = <<>> THEN <<>>
  ELSE IF t[1] \in DigitTokens THEN RemoveSpaces(TakeDigitsAndSpaces(t))
  ELSE FirstInteger(Tail(t))

\* C18: without a score container extractRating returns {score: null,
\* totalReviews: null}; with one, totalReviews is the integer embedded in the
\* text of the second sub-element, its internal whitespace removed, wherever
\* in the text it stands, and null when there is no integer (or no second
\* sub-element).
C18_TotalReviews ==
  call.fn = "extractRating" =>
    IF ~call.arg.present
    THEN call.ret = [score |-> NoText, totalReviews |-> JsNull]
    ELSE LET t == IF Len(call.arg.divs) >= 2 THEN call.arg.divs[2] ELSE <<>>
         IN IF HasDigit(t)
            THEN call.ret.totalReviews = JsInt(FirstInteger(t))
            ELSE call.ret.totalReviews \in {JsNull, JsNaN}

\* The normalized URLs of the handled requests that were continued and
\* match the gallery-image pattern, in order; only those handled before the
\* merge when early.
RECURSIVE Collected(_, _)
Collected(log, early) ==
  IF log = <<>> THEN <<>>
  ELSE LET h == log[Len(log)]
           front == Collected(SubSeq(log, 1, Len(log) - 1), early)
       IN IF h.continues = 1 /\ IsGalleryImage(h.req) /\ (early => ~h.merged)
          THEN Append(front, NormalizeImageUrl(h.req.url))
          ELSE front

\* C19: every intercepted request is resolved exactly once, by abort or by
\* continue; a font request or a request whose URL has analytics, tracking
\* or telemetry is aborted and never recorded; the returned galleryImages
\* holds exactly the normalized URLs of the continued image requests matching
\* the pattern that were handled before the merge.
C19_RequestsResolvedOnce ==
  /\ \A k \in 1..Len(handled) :
       /\ handled[k].aborts + handled[k].continues = 1
       /\ IsBlocked(handled[k].req) => handled[k].aborts = 1
  /\ galleryImages = Collected(handled, FALSE)
  /\ returned.done =>
       /\ Range(returned.images) = Range(Collected(handled, TRUE))
       /\ NoDuplicates(returned.images)

\* C19 (witness): a blocked request that matches the gallery pattern was
\* aborted, and a gallery image was continued and returned.
C19_Witness ==
  /\ returned.done
  /\ Len(returned.images) = 1
  /\ Len(handled) = 2
  /\ \E k \in 1..Len(handled) :
       /\ IsBlocked(handled[k].req)
       /\ IsGalleryImage(handled[k].req)
       /\ handled[k].aborts = 1

\* C19 (witness): a gallery image continued after the merge is recorded by
\* the handler and is not in the returned list.
C19_WitnessLate ==
  /\ returned.done
  /\ Len(returned.images) = 1
  /\ Len(galleryImages) = 2
  /\ handled[2].merged

\* C20: any two scrapes have different session ids, two scrapes started by
\* overlapping requests at the same clock reading included.
C20_UniqueSessionIds ==
  \A c1, c2 \in Clients :
    (c1 # c2 /\ scrapes[c1].sessionId # <<>> /\ scrapes[c2].sessionId # <<>>) =>
       scrapes[c1].sessionId # scrapes[c2].sessionId

\* The positions of xs whose element has no earlier element with the same
\* place name and the same distance.
FirstOfPlace(xs) ==
  {i \in 1..Len(xs) :
     \A j \in 1..(i - 1) :
       xs[j].place # xs[i].place \/ xs[j].distance # xs[i].distance}

\* The positions of xs whose review has no earlier review with the same text.
FirstOfText(xs) ==
  {i \in 1..Len(xs) : \A j \in 1..(i - 1) : xs[j].text # xs[i].text}

\* C21: de-duplication drops only true repeats: the reviews kept are those
\* with no earlier review of the same text, the places kept are those with
\* no earlier entry of the same place name and the same distance, whatever
\* the names and distances contain ("|" included).
C21_OnlyTrueRepeatsDropped ==
  /\ call.fn = "extractReviews" =>
       /\ Len(call.ret) = Cardinality(FirstOfText(call.pre))
       /\ \A i \in FirstOfText(call.pre) : Occurs(call.ret, call.pre[i])
  /\ call.fn = "extractNearbyPlaces" =>
       /\ Len(call.ret) = Cardinality(FirstOfPlace(call.pre))
       /\ \A i \in FirstOfPlace(call.pre) : Occurs(call.ret, call.pre[i])

CeilDiv(a, b) == (a + b - 1) \div b

\* The page had the same height at every tick.
FixedHeight(hs) == \A i \in 1..Len(hs) : hs[i] = hs[1]

\* On a page of fixed height H the sweep stops with tick ceil(H / 100).
SweepStopsOnTime ==
  timer = "cleared" /\ FixedHeight(heights)
    => Len(heights) = CeilDiv(heights[1], distance)

\* The loop goes from each row to the next one of the initial list, and
\* returns after the last.
RowsInTurn ==
  /\ [][row' # row => row' = row + 1 /\ row' <= Len(page.rows)]_vars
  /\ [][dpc = "rooms" => page' = page]_vars
  /\ [](rpc = "done" => row = Len(page.rows))

\* A call that has started settles.
Settles == (outcome = "pending") ~> (outcome \in {"fulfilled", "rejected"})

\* A call that has started returns a result.
SettlesWithResult ==
  (outcome = "pending") ~> (outcome = "fulfilled" /\ result.made)

\* C22: every call of scrapeHotelData eventually settles with a result when
\* every operation it awaits settles; on a page of fixed height H the scroll
\* sweep stops after ceil(H / 100) steps, on a page that stops growing by
\* 100 px or more per step it stops too, and the room loop visits each row
\* of the initial row list exactly once.
C22_ScrapeSettlesWithResult ==
  /\ SettlesWithResult
  /\ []SweepStopsOnTime
  /\ (timer = "set") ~> (timer = "cleared" \/ pc # "scroll")
  /\ RowsInTurn

\* C22: a sweep over a page that grew has stopped, a room loop over two
\* rows has returned, and the call has settled.
C22_Witness ==
  /\ pc = "settled"
  /\ rpc = "done"
  /\ row = 2
  /\ Len(clicks) >= 2

====
